---- MODULE Spec2Model ----
(***************************************************************************)
(* Model of pynest/nest/lib/hl_api_projections.py: the projection          *)
(* descriptors, the module-level ProjectionCollection and the operations   *)
(* Connect, ConnectImmediately, BuildNetwork, reset_projection_collection. *)
(* Python objects are records tagged with their class; dictionaries are    *)
(* functions from key strings to values.                                   *)
(***************************************************************************)
EXTENDS Integers, Sequences, FiniteSets, TLC

\* Bound: the number of objects in play in one step (the descriptors pending
\* in the batch plus the elements of the argument passed to an operation).
MaxBatch == 2
MaxObjs == 2

(***************************************************************************)
(* Values                                                                  *)
(***************************************************************************)
NoneV == [class |-> "NoneType"]
True == [class |-> "bool", v |-> TRUE]
False == [class |-> "bool", v |-> FALSE]
EmptyDict == [k \in {} |-> NoneV]

\* dict.update(other): the keys of other override
DictUpdate(d, other) ==
    [k \in DOMAIN d \cup DOMAIN other |-> IF k \in DOMAIN other THEN other[k] ELSE d[k]]

\* Node groups: NodeCollections with or without spatial metadata, raw index lists
NodeCollection(ids) == [class |-> "NodeCollection", ids |-> ids, spatial |-> FALSE]
nodes == NodeCollection(<<1, 2>>)
layer == [class |-> "NodeCollection", ids |-> <<1, 2>>, spatial |-> TRUE]
RawList(ids) == [class |-> "list", ids |-> ids]

\* len(set(x)) == len(x)
NoDuplicates(ids) == Cardinality({ids[i] : i \in DOMAIN ids}) = Len(ids)

\* Synapse specifications
SynDict(d) == [class |-> "dict", d |-> d]
SynapseModelObj(d) == [class |-> "SynapseModel", d |-> d]
CollocatedSynapses(specs) == [class |-> "CollocatedSynapses", syn_specs |-> specs]

ProjectionClasses ==
    {"AllToAll", "ArrayConnect", "Conngen", "FixedIndegree", "FixedOutdegree",
     "FixedTotalNumber", "OneToOne", "PairwiseBernoulli", "SymmetricPairwiseBernoulli"}

\* issubclass(type(x), Projection)
IsProjection(x) == x.class \in ProjectionClasses

\* issubclass(type(x), (list, tuple))
IsListOrTuple(x) == x.class \in {"list", "tuple"}

(***************************************************************************)
(* Descriptors                                                             *)
(***************************************************************************)
\* Variant: every allow_autapses/allow_multapses value other than None is stored
Projection_init_stores_any(cls, conn_spec, source, target, allow_autapses, allow_multapses, syn_spec, kwargs) ==
    LET cs0 == DictUpdate(conn_spec, kwargs)
        cs1 == IF allow_autapses.class # "NoneType"
               THEN DictUpdate(cs0, [allow_autapses |-> allow_autapses.v]) ELSE cs0
        cs2 == IF allow_multapses.class # "NoneType"
               THEN DictUpdate(cs1, [allow_multapses |-> allow_multapses.v]) ELSE cs1
    IN  [class |-> cls, source |-> source, target |-> target, syn_spec |-> syn_spec,
         conn_spec |-> cs2, use_connect_arrays |-> FALSE]

\* Projection.__init__; conn_spec is the mapping the subclass has just set
Projection_init(cls, conn_spec, source, target, allow_autapses, allow_multapses, syn_spec, kwargs) ==
    LET cs0 == DictUpdate(conn_spec, kwargs)
        cs1 == IF allow_autapses.class = "bool"
               THEN DictUpdate(cs0, [allow_autapses |-> allow_autapses.v]) ELSE cs0
        cs2 == IF allow_multapses.class = "bool"
               THEN DictUpdate(cs1, [allow_multapses |-> allow_multapses.v]) ELSE cs1
    IN  [class |-> cls, source |-> source, target |-> target, syn_spec |-> syn_spec,
         conn_spec |-> cs2, use_connect_arrays |-> FALSE]

AllToAll(source, target, allow_autapses, allow_multapses, syn_spec, kwargs) ==
    Projection_init("AllToAll", [rule |-> "all_to_all"],
                    source, target, allow_autapses, allow_multapses, syn_spec, kwargs)

Conngen(source, target, allow_autapses, allow_multapses, syn_spec, cg, kwargs) ==
    Projection_init("Conngen", [rule |-> "conngen", cg |-> cg],
                    source, target, allow_autapses, allow_multapses, syn_spec, kwargs)

FixedIndegree(source, target, indegree, allow_autapses, allow_multapses, syn_spec, kwargs) ==
    Projection_init("FixedIndegree", [rule |-> "fixed_indegree", indegree |-> indegree],
                    source, target, allow_autapses, allow_multapses, syn_spec, kwargs)

FixedOutdegree(source, target, outdegree, allow_autapses, allow_multapses, syn_spec, kwargs) ==
    Projection_init("FixedOutdegree", [rule |-> "fixed_outdegree", outdegree |-> outdegree],
                    source, target, allow_autapses, allow_multapses, syn_spec, kwargs)

FixedTotalNumber(source, target, N, allow_autapses, allow_multapses, syn_spec, kwargs) ==
    Projection_init("FixedTotalNumber", [rule |-> "fixed_total_number", N |-> N],
                    source, target, allow_autapses, allow_multapses, syn_spec, kwargs)

OneToOne(source, target, allow_autapses, allow_multapses, syn_spec, kwargs) ==
    Projection_init("OneToOne", [rule |-> "one_to_one"],
                    source, target, allow_autapses, allow_multapses, syn_spec, kwargs)

PairwiseBernoulli(source, target, p, allow_autapses, allow_multapses, syn_spec, kwargs) ==
    Projection_init("PairwiseBernoulli", [rule |-> "pairwise_bernoulli", p |-> p],
                    source, target, allow_autapses, allow_multapses, syn_spec, kwargs)

SymmetricPairwiseBernoulli(source, target, p, allow_autapses, allow_multapses, syn_spec, kwargs) ==
    Projection_init("SymmetricPairwiseBernoulli", [rule |-> "symmetric_pairwise_bernoulli", p |-> p],
                    source, target, allow_autapses, allow_multapses, syn_spec, kwargs)

ArrayConnect(source, target, allow_autapses, allow_multapses, syn_spec, kwargs) ==
    LET self == Projection_init("ArrayConnect", [rule |-> "one_to_one"],
                                source, target, allow_autapses, allow_multapses, syn_spec, kwargs)
    IN  IF /\ source.class # "NodeCollection"
           /\ target.class # "NodeCollection"
           /\ NoDuplicates(source.ids)
           /\ NoDuplicates(target.ids)
        THEN [self EXCEPT !.source = NodeCollection(source.ids),
                          !.target = NodeCollection(target.ids)]
        ELSE [self EXCEPT !.use_connect_arrays = TRUE]

\* The descriptors and values the operations are called with
Mask == [mask |-> "rectangular"]
dA == FixedIndegree(nodes, nodes, 2, NoneV, NoneV, NoneV, EmptyDict)
dB == FixedIndegree(nodes, nodes, 5, NoneV, True, SynDict([weight |-> 3]), EmptyDict)
dBad == FixedIndegree(nodes, nodes, 5, NoneV, False, NoneV, EmptyDict)
dArr == ArrayConnect(RawList(<<1, 1>>), RawList(<<1, 2>>), NoneV, NoneV, NoneV, EmptyDict)
dArrMask == ArrayConnect(layer, layer, NoneV, NoneV, NoneV, Mask)
dSp == FixedIndegree(layer, layer, 1, NoneV, NoneV, NoneV, Mask)
dSpNoSrc == FixedIndegree(nodes, nodes, 1, NoneV, NoneV, NoneV, Mask)
dSpNoTgt == FixedIndegree(layer, nodes, 1, NoneV, NoneV, NoneV, Mask)
NotAProjection == [class |-> "int", v |-> 42]

Descriptors == {dA, dB, dBad, dArr, dArrMask, dSp, dSpNoSrc, dSpNoTgt}
Elements == Descriptors \cup {NotAProjection}

SeqsUpTo(S, k) == UNION {[1..m -> S] : m \in 0..k}

\* Arguments: a descriptor, a list or a tuple of elements, or some other value
Arguments(k) ==
    Descriptors \cup {NotAProjection, NoneV}
    \cup {[class |-> "list", items |-> s] : s \in SeqsUpTo(Elements, k)}
    \cup {[class |-> "tuple", items |-> s] : s \in SeqsUpTo({dA, NotAProjection}, k)}

(***************************************************************************)
(* Descriptor methods                                                      *)
(***************************************************************************)
\* syn_spec.to_dict() if issubclass(type(syn_spec), SynapseModel) else syn_spec
SynapseModelToDict(syn_spec) ==
    IF syn_spec.class = "SynapseModel" THEN SynDict(syn_spec.d) ELSE syn_spec

\* _process_syn_spec: validates the specification and hands it back
process_syn_spec(syn_spec, conn_spec, prelength, postlength, use_connect_arrays) == syn_spec

\* Projection.to_list
to_list(self) ==
    LET s0 == SynapseModelToDict(self.syn_spec)
        s1 == process_syn_spec(s0, self.conn_spec, Len(self.source.ids), Len(self.target.ids), FALSE)
        s2 == IF s1.class = "NoneType"
              THEN SynDict([synapse_model |-> "static_synapse"])
              ELSE IF s1.class = "dict" /\ "synapse_model" \notin DOMAIN s1.d
              THEN SynDict(DictUpdate(s1.d, [synapse_model |-> "static_synapse"]))
              ELSE s1
    IN  <<self.source, self.target, self.conn_spec, s2>>

\* The engine operations, as the record of one invocation
nestlib_Connect(source, target, conn_spec, syn_spec) ==
    [fn |-> "Connect", source |-> source, target |-> target,
     conn_spec |-> conn_spec, syn_spec |-> syn_spec]

array_connect(source, target, conn_spec, syn_spec) ==
    [fn |-> "array_connect", source |-> source, target |-> target,
     conn_spec |-> conn_spec, syn_spec |-> syn_spec]

connect_projections(projection_list) ==
    [fn |-> "connect_projections", projection_list |-> projection_list]

\* The engine raises on an invalid specification: more incoming connections per
\* target than there are sources, with multapses forbidden
InvalidSpec(source, conn_spec) ==
    /\ conn_spec.rule = "fixed_indegree"
    /\ "allow_multapses" \in DOMAIN conn_spec
    /\ ~conn_spec.allow_multapses
    /\ conn_spec.indegree > Len(source.ids)

EngineRejects(call) ==
    IF call.fn = "connect_projections"
    THEN \E i \in DOMAIN call.projection_list :
            LET instr == call.projection_list[i] IN
            InvalidSpec(instr[1], IF Len(instr) = 3 THEN instr[3].conn_spec ELSE instr[3])
    ELSE InvalidSpec(call.source, call.conn_spec)

\* Projection.apply: the engine call it makes
apply(self) ==
    nestlib_Connect(self.source, self.target, self.conn_spec, SynapseModelToDict(self.syn_spec))

\* _connect_layers_needed: the rule/synapse combination requires spatial evaluation
connect_layers_needed(conn_spec, syn_spec) ==
    \/ "mask" \in DOMAIN conn_spec
    \/ "kernel" \in DOMAIN conn_spec
    \/ syn_spec.class = "dict" /\ "spatial" \in DOMAIN syn_spec.d

\* _process_spatial_projections: one merged spatial projection dictionary
process_spatial_projections(conn_spec, syn_spec) ==
    [conn_spec |-> conn_spec, syn_spec |-> syn_spec]

\* x.spatial is None; a raw index list has no such attribute
HasSpatialAttr(x) == x.class = "NodeCollection"
SpatialIsNone(x) == ~x.spatial

(***************************************************************************)
(* State                                                                   *)
(***************************************************************************)
VARIABLES
    batch_projections,  \* projection_collection._batch_projections
    network_built,      \* projection_collection.network_built
    op,                 \* the operation called last
    arg,                \* its argument
    outcome,            \* "ok", or the class of the exception it raised
    message,            \* the message of that exception
    calls,              \* the engine operations it invoked, in order
    pre_batch,          \* _batch_projections when it was called
    pre_built,          \* network_built when it was called
    ctor,               \* the constructor call a descriptor is made by
    objs,               \* the descriptor objects; field conn_spec refers into heap
    heap,               \* the conn_spec mappings the descriptor objects refer to
    d_op,               \* the descriptor operation performed last
    d_self,             \* the object it was performed on
    d_attr,             \* the attribute it wrote
    d_result,           \* what it returned or invoked
    pre_heap            \* heap when it was called

collectionVars ==
    <<batch_projections, network_built, op, arg, outcome, message, calls, pre_batch, pre_built>>
descriptorVars == <<ctor, objs, heap, d_op, d_self, d_attr, d_result, pre_heap>>
vars == <<collectionVars, descriptorVars>>

\* No descriptor object under observation
NoObjects ==
    /\ ctor = NoneV
    /\ objs = <<>>
    /\ heap = <<>>
    /\ d_op = "none"
    /\ d_self = 0
    /\ d_attr = ""
    /\ d_result = <<>>
    /\ pre_heap = <<>>

\* ProjectionCollection.__init__, at module import
Init ==
    /\ batch_projections = <<>>
    /\ network_built = FALSE
    /\ op = "import"
    /\ arg = NoneV
    /\ outcome = "ok"
    /\ message = ""
    /\ calls = <<>>
    /\ pre_batch = <<>>
    /\ pre_built = FALSE
    /\ NoObjects

Room == MaxBatch - Len(batch_projections)

ShapeMessage == "must be a projection or a list of projections"
PreMessage == "Presynaptic NodeCollection must have spatial information"
PostMessage == "Postsynaptic NodeCollection must have spatial information"

(***************************************************************************)
(* Connect                                                                 *)
(***************************************************************************)
\* Variant: the flag is left as it is
ClearBuilt_kept(built) == built

\* if projection_collection.network_built: network_built = False
ClearBuilt(built) == IF built THEN FALSE ELSE built

\* Variant: a list or tuple is added as one element instead of being iterated
Connect_result_adds_list(projection, batch, built) ==
    LET ok(b) == [outcome |-> "ok", message |-> "", batch |-> b, built |-> ClearBuilt(built)]
    IN  IF IsProjection(projection) \/ IsListOrTuple(projection) THEN ok(Append(batch, projection))
        ELSE [outcome |-> "TypeError", message |-> ShapeMessage, batch |-> batch, built |-> built]

\* Connect(projection) on a collection (batch, built)
Connect_result(projection, batch, built) ==
    LET ok(b) == [outcome |-> "ok", message |-> "", batch |-> b, built |-> ClearBuilt(built)]
    IN  IF IsProjection(projection) THEN ok(Append(batch, projection))
        ELSE IF IsListOrTuple(projection) THEN ok(batch \o projection.items)
        ELSE [outcome |-> "TypeError", message |-> ShapeMessage, batch |-> batch, built |-> built]

Connect ==
    \E projection \in Arguments(Room) :
        LET r == Connect_result(projection, batch_projections, network_built) IN
        /\ Len(r.batch) <= MaxBatch
        /\ batch_projections' = r.batch
        /\ network_built' = r.built
        /\ op' = "Connect"
        /\ arg' = projection
        /\ outcome' = r.outcome
        /\ message' = r.message
        /\ calls' = <<>>
        /\ pre_batch' = batch_projections
        /\ pre_built' = network_built
        /\ UNCHANGED descriptorVars

(***************************************************************************)
(* ConnectImmediately                                                      *)
(***************************************************************************)
RECURSIVE ApplyAll_backwards(_, _)
\* Variant: the descriptors are applied last to first
ApplyAll_backwards(todo, done) ==
    IF todo = <<>> THEN [outcome |-> "ok", message |-> "", calls |-> done]
    ELSE LET last == todo[Len(todo)]
             c == Append(done, apply(last))
         IN  IF EngineRejects(apply(last))
             THEN [outcome |-> "EngineError", message |-> "", calls |-> c]
             ELSE ApplyAll_backwards(SubSeq(todo, 1, Len(todo) - 1), c)

RECURSIVE ApplyAll(_, _)
\* for projection in projections: projection.apply(), up to the first call
\* the engine raises in
ApplyAll(todo, done) ==
    IF todo = <<>> THEN [outcome |-> "ok", message |-> "", calls |-> done]
    ELSE LET c == Append(done, apply(Head(todo))) IN
         IF EngineRejects(apply(Head(todo)))
         THEN [outcome |-> "EngineError", message |-> "", calls |-> c]
         ELSE ApplyAll(Tail(todo), c)

\* ConnectImmediately(projections)
ConnectImmediately_result(projections) ==
    LET list == IF IsProjection(projections)
                THEN [class |-> "list", items |-> <<projections>>] ELSE projections
    IN  IF ~(IsListOrTuple(list) /\ \A i \in DOMAIN list.items : IsProjection(list.items[i]))
        THEN [outcome |-> "TypeError", message |-> ShapeMessage, calls |-> <<>>]
        ELSE ApplyAll(list.items, <<>>)

ConnectImmediately ==
    \E projections \in Arguments(Room) :
        LET r == ConnectImmediately_result(projections) IN
        /\ op' = "ConnectImmediately"
        /\ arg' = projections
        /\ outcome' = r.outcome
        /\ message' = r.message
        /\ calls' = r.calls
        /\ pre_batch' = batch_projections
        /\ pre_built' = network_built
        /\ UNCHANGED <<batch_projections, network_built>>
        /\ UNCHANGED descriptorVars

(***************************************************************************)
(* BuildNetwork                                                            *)
(***************************************************************************)
\* Variant: the pending descriptors are kept
ProjectionCollection_reset_keeps(batch) == batch

\* ProjectionCollection.reset
ProjectionCollection_reset(batch) == <<>>

\* Variant: the flag is not consulted
ShouldBuild_always(built) == TRUE

\* if not projection_collection.network_built
ShouldBuild(built) == ~built

\* Variant: the instruction is put in front
list_append_front(projection_list, instruction) == <<instruction>> \o projection_list

\* projection_list.append(instruction)
list_append(projection_list, instruction) == Append(projection_list, instruction)

\* Variant: the spatial trigger is tested before the array flag
Path_spatial_first(proj, conn_spec, syn_spec) ==
    IF connect_layers_needed(conn_spec, syn_spec) THEN "spatial"
    ELSE IF proj.use_connect_arrays THEN "array"
    ELSE "standard"

\* Variant: the array flag is not consulted
Path_no_array(proj, conn_spec, syn_spec) ==
    IF connect_layers_needed(conn_spec, syn_spec) /\ ~proj.use_connect_arrays THEN "spatial"
    ELSE "standard"

\* The branch of the loop body a descriptor takes
Path(proj, conn_spec, syn_spec) ==
    IF proj.use_connect_arrays THEN "array"
    ELSE IF connect_layers_needed(conn_spec, syn_spec) THEN "spatial"
    ELSE "standard"

\* Variant: the target is checked before the source
SpatialCheck_target_first(source, target) ==
    IF ~HasSpatialAttr(target) THEN [outcome |-> "AttributeError", message |-> "spatial"]
    ELSE IF SpatialIsNone(target) THEN [outcome |-> "TypeError", message |-> PostMessage]
    ELSE IF ~HasSpatialAttr(source) THEN [outcome |-> "AttributeError", message |-> "spatial"]
    ELSE IF SpatialIsNone(source) THEN [outcome |-> "TypeError", message |-> PreMessage]
    ELSE [outcome |-> "ok", message |-> ""]

\* The checks that pre and post are layers: the exception raised, if any
SpatialCheck(source, target) ==
    IF ~HasSpatialAttr(source) THEN [outcome |-> "AttributeError", message |-> "spatial"]
    ELSE IF SpatialIsNone(source) THEN [outcome |-> "TypeError", message |-> PreMessage]
    ELSE IF ~HasSpatialAttr(target) THEN [outcome |-> "AttributeError", message |-> "spatial"]
    ELSE IF SpatialIsNone(target) THEN [outcome |-> "TypeError", message |-> PostMessage]
    ELSE [outcome |-> "ok", message |-> ""]

\* Variant: whatever the synapse specification is, it is wrapped as one element
SynSpecList_wraps_all(syn_spec) == <<syn_spec>>

\* Convert syn_spec to list of dicts
SynSpecList(syn_spec) ==
    IF syn_spec.class = "CollocatedSynapses" THEN syn_spec.syn_specs
    ELSE IF syn_spec.class = "dict" THEN <<syn_spec>>
    ELSE syn_spec

RECURSIVE Compile(_, _, _)
\* The loop of BuildNetwork over the descriptors still to process, followed by
\* the submission of projection_list; done holds the engine calls made so far
Compile(todo, projection_list, done) ==
    IF todo = <<>>
    THEN LET call == connect_projections(projection_list) IN
         [outcome |-> IF EngineRejects(call) THEN "EngineError" ELSE "ok",
          message |-> "", calls |-> Append(done, call)]
    ELSE LET proj == Head(todo) IN
         IF ~IsProjection(proj)
         THEN [outcome |-> "AttributeError", message |-> "to_list", calls |-> done]
         ELSE
         LET projection == to_list(proj)
             source == projection[1]
             target == projection[2]
             conn_spec == projection[3]
             syn_spec == projection[4]
             path == Path(proj, conn_spec, syn_spec)
         IN  IF path = "array"
             THEN LET call == array_connect(source, target, conn_spec, syn_spec) IN
                  IF EngineRejects(call)
                  THEN [outcome |-> "EngineError", message |-> "", calls |-> Append(done, call)]
                  ELSE Compile(Tail(todo), projection_list, Append(done, call))
             ELSE IF path = "spatial"
             THEN LET check == SpatialCheck(source, target) IN
                  IF check.outcome # "ok"
                  THEN [outcome |-> check.outcome, message |-> check.message, calls |-> done]
                  ELSE Compile(Tail(todo),
                               list_append(projection_list,
                                           <<source, target,
                                             process_spatial_projections(conn_spec, syn_spec)>>),
                               done)
             ELSE Compile(Tail(todo),
                          list_append(projection_list,
                                      <<source, target, conn_spec, SynSpecList(syn_spec)>>),
                          done)

\* Variant: the collection is reset and marked built whether or not the
\* compilation raised
BuildNetwork_result_always_resets(batch, built) ==
    IF ShouldBuild(built)
    THEN LET r == Compile(batch, <<>>, <<>>) IN
         [outcome |-> r.outcome, message |-> r.message, calls |-> r.calls,
          batch |-> <<>>, built |-> TRUE]
    ELSE [outcome |-> "ok", message |-> "", calls |-> <<>>, batch |-> batch, built |-> built]

\* BuildNetwork() on a collection (batch, built)
BuildNetwork_result(batch, built) ==
    IF ShouldBuild(built)
    THEN LET r == Compile(batch, <<>>, <<>>) IN
         IF r.outcome = "ok"
         THEN [outcome |-> "ok", message |-> "", calls |-> r.calls,
               batch |-> ProjectionCollection_reset(batch), built |-> TRUE]
         ELSE [outcome |-> r.outcome, message |-> r.message, calls |-> r.calls,
               batch |-> batch, built |-> built]
    ELSE [outcome |-> "ok", message |-> "", calls |-> <<>>, batch |-> batch, built |-> built]

BuildNetwork ==
    LET r == BuildNetwork_result(batch_projections, network_built) IN
    /\ batch_projections' = r.batch
    /\ network_built' = r.built
    /\ op' = "BuildNetwork"
    /\ arg' = NoneV
    /\ outcome' = r.outcome
    /\ message' = r.message
    /\ calls' = r.calls
    /\ pre_batch' = batch_projections
    /\ pre_built' = network_built
    /\ UNCHANGED descriptorVars

(***************************************************************************)
(* reset_projection_collection                                             *)
(***************************************************************************)
reset_projection_collection ==
    /\ batch_projections' = ProjectionCollection_reset(batch_projections)
    /\ network_built' = FALSE
    /\ op' = "reset_projection_collection"
    /\ arg' = NoneV
    /\ outcome' = "ok"
    /\ message' = ""
    /\ calls' = <<>>
    /\ pre_batch' = batch_projections
    /\ pre_built' = network_built
    /\ UNCHANGED descriptorVars

Next ==
    \/ Connect
    \/ ConnectImmediately
    \/ BuildNetwork
    \/ reset_projection_collection

Spec == Init /\ [][Next]_vars

(***************************************************************************)
(* Descriptor objects: construction, clone, attribute writes, to_list,     *)
(* apply and compilation of one descriptor                                 *)
(***************************************************************************)
\* Values given for allow_autapses and allow_multapses
One == [class |-> "int", v |-> 1]
FlagValues == {NoneV, True, False, One}

\* Values given as source and target of ArrayConnect
IndexInputs == {RawList(<<1, 1>>), RawList(<<1, 2>>), nodes}

\* Values given as syn_spec
Collocated2 ==
    CollocatedSynapses(<<SynDict([synapse_model |-> "static_synapse", weight |-> 0 - 2]),
                         SynDict([synapse_model |-> "static_synapse", weight |-> 3])>>)
SynSpecs ==
    {NoneV, SynDict([weight |-> 3]),
     SynapseModelObj([synapse_model |-> "stdp_synapse", weight |-> 3]), Collocated2}

\* A constructor call
Call(cls, source, target, allow_autapses, allow_multapses, syn_spec) ==
    [cls |-> cls, source |-> source, target |-> target,
     allow_autapses |-> allow_autapses, allow_multapses |-> allow_multapses,
     syn_spec |-> syn_spec]

\* The constructor calls considered: every variant with every pair of flag
\* values, ArrayConnect with every pair of index inputs, and two variants with
\* every kind of syn_spec
CtorInputs ==
    {Call(cls, nodes, nodes, aa, am, NoneV) :
        cls \in ProjectionClasses, aa \in FlagValues, am \in FlagValues}
    \cup {Call("ArrayConnect", src, tgt, NoneV, NoneV, NoneV) :
        src \in IndexInputs, tgt \in IndexInputs}
    \cup {Call(cls, nodes, nodes, NoneV, NoneV, syn) :
        cls \in {"OneToOne", "FixedIndegree"}, syn \in SynSpecs}

\* The descriptor a constructor call returns
Construct(c) ==
    CASE c.cls = "AllToAll" ->
           AllToAll(c.source, c.target, c.allow_autapses, c.allow_multapses, c.syn_spec, EmptyDict)
      [] c.cls = "ArrayConnect" ->
           ArrayConnect(c.source, c.target, c.allow_autapses, c.allow_multapses, c.syn_spec, EmptyDict)
      [] c.cls = "Conngen" ->
           Conngen(c.source, c.target, c.allow_autapses, c.allow_multapses, c.syn_spec, NoneV, EmptyDict)
      [] c.cls = "FixedIndegree" ->
           FixedIndegree(c.source, c.target, 2, c.allow_autapses, c.allow_multapses, c.syn_spec, EmptyDict)
      [] c.cls = "FixedOutdegree" ->
           FixedOutdegree(c.source, c.target, 2, c.allow_autapses, c.allow_multapses, c.syn_spec, EmptyDict)
      [] c.cls = "FixedTotalNumber" ->
           FixedTotalNumber(c.source, c.target, 2, c.allow_autapses, c.allow_multapses, c.syn_spec, EmptyDict)
      [] c.cls = "OneToOne" ->
           OneToOne(c.source, c.target, c.allow_autapses, c.allow_multapses, c.syn_spec, EmptyDict)
      [] c.cls = "PairwiseBernoulli" ->
           PairwiseBernoulli(c.source, c.target, "0.5", c.allow_autapses, c.allow_multapses, c.syn_spec, EmptyDict)
      [] c.cls = "SymmetricPairwiseBernoulli" ->
           SymmetricPairwiseBernoulli(c.source, c.target, "0.5", c.allow_autapses, c.allow_multapses, c.syn_spec, EmptyDict)

\* The names __getattr__ and __setattr__ resolve to the object's own fields
ReservedNames == {"source", "target", "conn_spec", "syn_spec", "use_connect_arrays"}

\* The attribute assignments considered
AttributeWrites ==
    {[attr |-> "indegree", value |-> 7],
     [attr |-> "rule", value |-> "all_to_all"],
     [attr |-> "source", value |-> layer]}

\* The descriptor an object stands for: its fields, with the mapping its
\* conn_spec refers to
Deref(o) == [o EXCEPT !.conn_spec = heap[o.conn_spec]]

InitDesc ==
    /\ batch_projections = <<>>
    /\ network_built = FALSE
    /\ op = "import"
    /\ arg = NoneV
    /\ outcome = "ok"
    /\ message = ""
    /\ calls = <<>>
    /\ pre_batch = <<>>
    /\ pre_built = FALSE
    /\ ctor \in CtorInputs
    /\ objs = <<>>
    /\ heap = <<>>
    /\ d_op = "none"
    /\ d_self = 0
    /\ d_attr = ""
    /\ d_result = <<>>
    /\ pre_heap = <<>>

\* d = Variant(...): the subclass sets a new mapping, Projection.__init__ fills it
Projection_construct ==
    /\ objs = <<>>
    /\ LET self == Construct(ctor) IN
       /\ heap' = <<self.conn_spec>>
       /\ objs' = <<[self EXCEPT !.conn_spec = 1]>>
    /\ d_op' = "construct"
    /\ d_self' = 1
    /\ d_attr' = ""
    /\ d_result' = <<>>
    /\ pre_heap' = heap
    /\ UNCHANGED ctor
    /\ UNCHANGED collectionVars

\* c = d.clone(): copy.copy, a new object with the same field values, the
\* reference to the conn_spec mapping among them
Projection_clone ==
    \E i \in DOMAIN objs :
        /\ Len(objs) < MaxObjs
        /\ objs' = Append(objs, objs[i])
        /\ d_op' = "clone"
        /\ d_self' = i
        /\ d_attr' = ""
        /\ d_result' = <<>>
        /\ pre_heap' = heap
        /\ UNCHANGED <<ctor, heap>>
        /\ UNCHANGED collectionVars

\* d.attr = value
Projection_setattr ==
    \E i \in DOMAIN objs, w \in AttributeWrites :
        /\ IF w.attr \in ReservedNames
           THEN /\ objs' = [objs EXCEPT ![i] = [@ EXCEPT ![w.attr] = w.value]]
                /\ heap' = heap
           ELSE /\ heap' = [heap EXCEPT ![objs[i].conn_spec] = DictUpdate(@, w.attr :> w.value)]
                /\ objs' = objs
        /\ d_op' = "setattr"
        /\ d_self' = i
        /\ d_attr' = w.attr
        /\ d_result' = <<>>
        /\ pre_heap' = heap
        /\ UNCHANGED ctor
        /\ UNCHANGED collectionVars

\* d.to_list()
Projection_to_list ==
    \E i \in DOMAIN objs :
        /\ d_op' = "to_list"
        /\ d_self' = i
        /\ d_attr' = ""
        /\ d_result' = to_list(Deref(objs[i]))
        /\ pre_heap' = heap
        /\ UNCHANGED <<ctor, objs, heap>>
        /\ UNCHANGED collectionVars

\* d.apply()
Projection_apply ==
    \E i \in DOMAIN objs :
        /\ d_op' = "apply"
        /\ d_self' = i
        /\ d_attr' = ""
        /\ d_result' = <<apply(Deref(objs[i]))>>
        /\ pre_heap' = heap
        /\ UNCHANGED <<ctor, objs, heap>>
        /\ UNCHANGED collectionVars

\* Connect(d); BuildNetwork() on a collection that is empty and not built
Connect_BuildNetwork ==
    \E i \in DOMAIN objs :
        LET added == Connect_result(Deref(objs[i]), <<>>, FALSE)
            built == BuildNetwork_result(added.batch, added.built)
        IN  /\ d_op' = "build"
            /\ d_self' = i
            /\ d_attr' = ""
            /\ d_result' = [outcome |-> built.outcome, calls |-> built.calls]
            /\ pre_heap' = heap
            /\ UNCHANGED <<ctor, objs, heap>>
            /\ UNCHANGED collectionVars

NextDesc ==
    \/ Projection_construct
    \/ Projection_clone
    \/ Projection_setattr
    \/ Projection_to_list
    \/ Projection_apply
    \/ Connect_BuildNetwork

SpecDesc == InitDesc /\ [][NextDesc]_vars

(***************************************************************************)
(* Properties                                                              *)
(***************************************************************************)
\* The last operation was a BuildNetwork that found the flag false
Compiled == op = "BuildNetwork" /\ ~pre_built

IsArrayPath(d) == d.use_connect_arrays
IsSharedPath(d) == ~d.use_connect_arrays
IsSpatial(d) == ~d.use_connect_arrays /\ connect_layers_needed(d.conn_spec, d.syn_spec)
IsStandard(d) == ~d.use_connect_arrays /\ ~connect_layers_needed(d.conn_spec, d.syn_spec)
AllProjections(batch) == \A i \in DOMAIN batch : IsProjection(batch[i])

IsSubmission(call) == call.fn = "connect_projections"
IsArrayCall(call) == call.fn = "array_connect"
Submissions(cs) == SelectSeq(cs, IsSubmission)
ArrayCalls(cs) == SelectSeq(cs, IsArrayCall)

\* C1: when every descriptor of the batch takes the standard path, BuildNetwork
\* submits one instruction list with one 4-element instruction per descriptor,
\* instruction k holding source, target, conn_spec (rule and rule parameters)
\* and synapse list of descriptor k of the batch.
C1_OrderPreserved ==
    (Compiled /\ AllProjections(pre_batch) /\ \A i \in DOMAIN pre_batch : IsStandard(pre_batch[i]))
    => /\ Len(calls) = 1
       /\ IsSubmission(calls[1])
       /\ Len(calls[1].projection_list) = Len(pre_batch)
       /\ \A k \in DOMAIN pre_batch :
            LET instr == calls[1].projection_list[k]
                d == pre_batch[k]
            IN  /\ Len(instr) = 4
                /\ instr[1] = d.source
                /\ instr[2] = d.target
                /\ instr[3] = d.conn_spec
                /\ \A key \in DOMAIN d.conn_spec : instr[3][key] = d.conn_spec[key]
                /\ instr[4] = SynSpecList(to_list(d)[4])

\* C1 witness: two standard descriptors with different rule parameters compiled
C1_Witness ==
    /\ Compiled
    /\ outcome = "ok"
    /\ pre_batch = <<dA, dB>>
    /\ calls[1].projection_list[1][3].indegree = 2
    /\ calls[1].projection_list[2][3].indegree = 5

\* C2: a BuildNetwork that follows a completed BuildNetwork invokes no engine
\* operation and changes neither the batch nor the flag; the two calls together
\* submit once when the first found the flag false.
C2_SecondBuildIsNoOp ==
    [][(op = "BuildNetwork" /\ outcome = "ok" /\ op' = "BuildNetwork")
        => /\ calls' = <<>>
           /\ outcome' = "ok"
           /\ batch_projections' = batch_projections
           /\ network_built' = network_built
           /\ Len(Submissions(calls)) + Len(Submissions(calls')) = IF pre_built THEN 0 ELSE 1]_vars

\* C2 witness: a BuildNetwork called when the previous one had built the batch
C2_Witness ==
    /\ op = "BuildNetwork"
    /\ pre_built
    /\ pre_batch = <<>>
    /\ calls = <<>>
    /\ network_built

\* The last operation was a Connect that appended to a batch marked built
AppendedAfterBuild ==
    op = "Connect" /\ outcome = "ok" /\ pre_built /\ Len(batch_projections) > Len(pre_batch)

\* C3: a Connect that appends while the flag is true leaves the flag false, and
\* the BuildNetwork that follows is not a no-op: it raises, or it dispatches
\* every descriptor accumulated since the previous compile and drains the batch.
C3_ConnectClearsBuilt ==
    [][/\ AppendedAfterBuild' => ~network_built'
       /\ (AppendedAfterBuild /\ op' = "BuildNetwork")
            => /\ outcome' # "ok" \/ calls' # <<>>
               /\ outcome' = "ok"
                    => /\ Len(ArrayCalls(calls')) + Len(Submissions(calls')[1].projection_list)
                            = Len(batch_projections)
                       /\ batch_projections' = <<>>]_vars

\* C3 witness: descriptors appended to a batch that was marked built
C3_Witness == AppendedAfterBuild /\ Len(batch_projections) = MaxBatch /\ ~network_built

\* C4: a BuildNetwork that finds the flag false and returns has made one
\* array-connect call per array-flag descriptor, in order, then one submission
\* holding one instruction per other descriptor, in order, of 3 elements for a
\* spatially triggered one and of 4 elements otherwise; the batch is then empty
\* and the flag true.
C4_EveryDescriptorOnce ==
    (Compiled /\ outcome = "ok")
    => LET arrays == SelectSeq(pre_batch, IsArrayPath)
           shared == SelectSeq(pre_batch, IsSharedPath)
           list == calls[Len(calls)].projection_list
       IN  /\ Len(calls) = Len(arrays) + 1
           /\ IsSubmission(calls[Len(calls)])
           /\ \A k \in DOMAIN arrays :
                /\ IsArrayCall(calls[k])
                /\ calls[k].source = arrays[k].source
                /\ calls[k].target = arrays[k].target
                /\ calls[k].conn_spec = arrays[k].conn_spec
           /\ Len(list) = Len(shared)
           /\ \A k \in DOMAIN shared :
                /\ Len(list[k]) = IF IsSpatial(shared[k]) THEN 3 ELSE 4
                /\ list[k][1] = shared[k].source
                /\ list[k][2] = shared[k].target
           /\ batch_projections = <<>>
           /\ network_built

\* C4 witness: a batch holding an array-flag descriptor that also has a mask,
\* and a spatial one, compiled
C4_Witness ==
    /\ Compiled
    /\ outcome = "ok"
    /\ pre_batch = <<dArrMask, dSp>>
    /\ Len(calls) = 2
    /\ Len(calls[2].projection_list[1]) = 3

\* A descriptor, or a list or tuple holding descriptors only
IsSequenceOfDescriptors(x) == IsListOrTuple(x) /\ \A i \in DOMAIN x.items : IsProjection(x.items[i])
WellShaped(x) == IsProjection(x) \/ IsSequenceOfDescriptors(x)

\* C5: Connect raises TypeError whenever its argument is neither a descriptor
\* nor a sequence of descriptors, and then leaves the batch and the flag as
\* they were.
C5_ConnectRejectsBadShape ==
    (op = "Connect" /\ ~WellShaped(arg))
    => /\ outcome = "TypeError"
       /\ batch_projections = pre_batch
       /\ network_built = pre_built

\* C6: for every argument, Connect raises the shape TypeError exactly when
\* ConnectImmediately does.
C6_SameShapeErrors ==
    /\ op = "Connect"
        => (outcome = "TypeError" <=> ConnectImmediately_result(arg).outcome = "TypeError")
    /\ op = "ConnectImmediately"
        => (outcome = "TypeError"
              <=> Connect_result(arg, pre_batch, pre_built).outcome = "TypeError")

\* The descriptors an argument of ConnectImmediately stands for
ItemsOf(x) == IF IsProjection(x) THEN <<x>> ELSE x.items

\* C7: ConnectImmediately leaves the batch and the flag as they were, whatever
\* they were; when it returns, it has made one engine connect call per
\* descriptor of its argument, in the order of the argument.
C7_ImmediateBypassesBatch ==
    op = "ConnectImmediately"
    => /\ batch_projections = pre_batch
       /\ network_built = pre_built
       /\ outcome = "ok"
            => /\ Len(calls) = Len(ItemsOf(arg))
               /\ \A k \in DOMAIN calls :
                    /\ calls[k].fn = "Connect"
                    /\ calls[k].source = ItemsOf(arg)[k].source
                    /\ calls[k].target = ItemsOf(arg)[k].target
                    /\ calls[k].conn_spec = ItemsOf(arg)[k].conn_spec

\* C7 witness: two descriptors applied in order while the batch is marked built
C7_Witness ==
    /\ op = "ConnectImmediately"
    /\ outcome = "ok"
    /\ arg = [class |-> "list", items |-> <<dA, dB>>]
    /\ Len(calls) = 2
    /\ calls[1].conn_spec.indegree = 2
    /\ calls[2].conn_spec.indegree = 5
    /\ pre_built
    /\ network_built

IsFlagged(x) == IsProjection(x) /\ x.use_connect_arrays
Matches(instr, d) == instr[1] = d.source /\ instr[2] = d.target /\ instr[3] = d.conn_spec

\* C8: the array-connect calls of a BuildNetwork are made for the descriptors
\* of the batch whose array flag is set, in their order, and for all of them
\* once the loop is through; no instruction of the submitted list is that of a
\* descriptor whose flag is set.
C8_ArrayPathSeparate ==
    Compiled
    => LET flagged == SelectSeq(pre_batch, IsFlagged)
           arrays == ArrayCalls(calls)
       IN  /\ Len(arrays) <= Len(flagged)
           /\ \A k \in DOMAIN arrays :
                /\ arrays[k].source = flagged[k].source
                /\ arrays[k].target = flagged[k].target
                /\ arrays[k].conn_spec = flagged[k].conn_spec
           /\ Submissions(calls) # <<>> => Len(arrays) = Len(flagged)
           /\ \A c \in DOMAIN calls :
                IsSubmission(calls[c])
                => /\ Len(calls[c].projection_list) = Len(pre_batch) - Len(flagged)
                   /\ \A i \in DOMAIN calls[c].projection_list, k \in DOMAIN flagged :
                        ~Matches(calls[c].projection_list[i], flagged[k])

\* C8 witness: a raw index list with a duplicate source index, dispatched by
\* array-connect next to a standard descriptor
C8_Witness ==
    /\ Compiled
    /\ outcome = "ok"
    /\ pre_batch = <<dArr, dA>>
    /\ dArr.use_connect_arrays
    /\ dArr.source = RawList(<<1, 1>>)
    /\ Len(calls) = 2
    /\ IsArrayCall(calls[1])
    /\ Len(calls[2].projection_list) = 1

\* A spatially triggered descriptor without the array flag whose source or
\* target has no spatial metadata
LacksSpatial(x) ==
    /\ IsProjection(x)
    /\ IsSpatial(x)
    /\ x.source.spatial = FALSE \/ x.target.spatial = FALSE

\* The first position of the batch whose descriptor the loop cannot get past
IsFirstFailure(batch, i) ==
    /\ i \in DOMAIN batch
    /\ LacksSpatial(batch[i])
    /\ \A j \in 1..(i - 1) : IsProjection(batch[j]) /\ ~LacksSpatial(batch[j])

\* C9: when the loop of BuildNetwork reaches a spatially triggered descriptor
\* without the array flag whose source or target lacks spatial metadata, a
\* TypeError naming the source side is raised if the source lacks it and one
\* naming the target side otherwise; nothing is submitted and the batch and
\* the flag stay as they were.
C9_SpatialPrecondition ==
    \A i \in DOMAIN pre_batch :
        (Compiled /\ IsFirstFailure(pre_batch, i))
        => /\ outcome = "TypeError"
           /\ message = IF pre_batch[i].source.spatial = FALSE THEN PreMessage ELSE PostMessage
           /\ Submissions(calls) = <<>>
           /\ batch_projections = pre_batch
           /\ ~network_built

\* C9 witness: the descriptor whose target alone lacks spatial metadata,
\* reached after an array-flag descriptor
C9_Witness ==
    /\ Compiled
    /\ pre_batch = <<dArr, dSpNoTgt>>
    /\ outcome = "TypeError"
    /\ message = PostMessage
    /\ Len(calls) = 1

\* C10: a BuildNetwork that raises leaves the batch as it was and the flag
\* false, and a BuildNetwork called next starts from that same batch and is
\* not a no-op.
C10_FailedBuildKeepsBatch ==
    [][/\ (op' = "BuildNetwork" /\ outcome' # "ok")
            => /\ batch_projections' = batch_projections
               /\ ~network_built'
               /\ ~network_built
       /\ (op = "BuildNetwork" /\ outcome # "ok" /\ op' = "BuildNetwork")
            => /\ pre_batch' = pre_batch
               /\ ~pre_built'
               /\ outcome' # "ok" \/ calls' # <<>>]_vars

\* C10 witness: the engine has rejected the submitted list, the descriptors
\* are still pending
C10_Witness ==
    /\ op = "BuildNetwork"
    /\ outcome = "EngineError"
    /\ pre_batch = <<dA, dBad>>
    /\ batch_projections = <<dA, dBad>>
    /\ ~network_built

\* C11: reset_projection_collection leaves the batch empty and the flag false
\* and invokes no engine operation; the BuildNetwork that follows it dispatches
\* none of the descriptors that were pending: it submits the empty list.
C11_ResetDiscards ==
    [][/\ op' = "reset_projection_collection"
            => /\ batch_projections' = <<>>
               /\ ~network_built'
               /\ calls' = <<>>
               /\ outcome' = "ok"
       /\ (op = "reset_projection_collection" /\ op' = "BuildNetwork")
            => /\ calls' = <<connect_projections(<<>>)>>
               /\ ArrayCalls(calls') = <<>>]_vars

\* C11 witness: a reset that found a full batch
C11_Witness ==
    /\ op = "reset_projection_collection"
    /\ Len(pre_batch) = MaxBatch
    /\ pre_batch[1] = dArr
    /\ batch_projections = <<>>
    /\ ~network_built

RECURSIVE ConnectEach(_, _, _)
\* The collection after one Connect call per element of items, in order
ConnectEach(items, batch, built) ==
    IF items = <<>> THEN [batch |-> batch, built |-> built]
    ELSE LET r == Connect_result(Head(items), batch, built)
         IN  ConnectEach(Tail(items), r.batch, r.built)

\* C12: Connect called with a list or tuple of n >= 1 descriptors leaves the
\* batch and the flag as n Connect calls with the descriptors one by one do, and
\* the BuildNetwork that follows makes the same engine calls in both cases.
C12_ListAsSuccessiveConnects ==
    (op = "Connect" /\ IsSequenceOfDescriptors(arg) /\ Len(arg.items) >= 1)
    => LET one_by_one == ConnectEach(arg.items, pre_batch, pre_built)
       IN  /\ outcome = "ok"
           /\ batch_projections = one_by_one.batch
           /\ network_built = one_by_one.built
           /\ BuildNetwork_result(batch_projections, network_built).calls
                = BuildNetwork_result(one_by_one.batch, one_by_one.built).calls

\* C12 witness: a list of two descriptors added to a batch that was marked built
C12_Witness ==
    /\ op = "Connect"
    /\ arg = [class |-> "list", items |-> <<dA, dB>>]
    /\ pre_built
    /\ batch_projections = <<dA, dB>>
    /\ ~network_built

\* What an engine call makes take effect, in order: one (source, target,
\* conn_spec) per array-connect call and per instruction of a submitted list
EffectsOf(call) ==
    IF IsArrayCall(call)
    THEN <<[source |-> call.source, target |-> call.target, conn_spec |-> call.conn_spec]>>
    ELSE [i \in DOMAIN call.projection_list |->
            LET instr == call.projection_list[i] IN
            [source |-> instr[1], target |-> instr[2],
             conn_spec |-> IF Len(instr) = 3 THEN instr[3].conn_spec ELSE instr[3]]]

RECURSIVE Effects(_)
Effects(cs) == IF cs = <<>> THEN <<>> ELSE EffectsOf(Head(cs)) \o Effects(Tail(cs))

\* The (source, target, conn_spec) of the descriptors of a batch, in order
Ends(batch) ==
    [i \in DOMAIN batch |->
        [source |-> batch[i].source, target |-> batch[i].target,
         conn_spec |-> batch[i].conn_spec]]

\* C18 as stated: the descriptors of a compiled batch take effect on the
\* engine in their insertion order.
C18_EffectsInInsertionOrder ==
    (Compiled /\ outcome = "ok") => Effects(calls) = Ends(pre_batch)

\* C18: the descriptors of a compiled batch take effect in two groups: first
\* the array-path descriptors, in their insertion order, then the standard and
\* spatial ones, in their insertion order; an array-path descriptor takes
\* effect before every standard or spatial one, also one inserted before it.
C18_EffectsArrayPathFirst ==
    (Compiled /\ outcome = "ok")
    => Effects(calls) = Ends(SelectSeq(pre_batch, IsArrayPath) \o SelectSeq(pre_batch, IsSharedPath))

\* C18 witness: an array-path descriptor inserted after a standard one has
\* been dispatched before it
C18_Witness ==
    /\ Compiled
    /\ outcome = "ok"
    /\ pre_batch = <<dA, dArr>>
    /\ Effects(calls) = Ends(<<dArr, dA>>)
    /\ IsArrayCall(calls[1])

\* What stops the loop of BuildNetwork at a batch element
StopsLoop(x) == ~IsProjection(x) \/ LacksSpatial(x)

\* C19: a BuildNetwork whose loop raised at position i has made the
\* array-connect calls of the array-flag descriptors before i and no
\* submission; batch and flag are as before, and the BuildNetwork called next
\* makes the same array-connect calls again.
C19_FailedBuildRedispatchesArrays ==
    (op = "BuildNetwork" /\ ~pre_built /\ outcome \in {"TypeError", "AttributeError"})
    => \E i \in DOMAIN pre_batch :
        /\ StopsLoop(pre_batch[i])
        /\ \A j \in 1..(i - 1) : ~StopsLoop(pre_batch[j])
        /\ LET flagged == SelectSeq(SubSeq(pre_batch, 1, i - 1), IsFlagged) IN
           /\ Len(calls) = Len(flagged)
           /\ \A k \in DOMAIN flagged :
                calls[k] = array_connect(flagged[k].source, flagged[k].target,
                                         flagged[k].conn_spec, to_list(flagged[k])[4])
        /\ Submissions(calls) = <<>>
        /\ batch_projections = pre_batch
        /\ ~network_built
        /\ LET retry == BuildNetwork_result(batch_projections, network_built) IN
           /\ retry.calls = calls
           /\ retry.outcome = outcome

\* C19 witness: the loop has raised at a descriptor reached after an
\* array-flag descriptor, whose array-connect call has been made
C19_Witness ==
    /\ op = "BuildNetwork"
    /\ outcome = "TypeError"
    /\ message = PreMessage
    /\ pre_batch = <<dArr, dSpNoSrc>>
    /\ calls = <<array_connect(dArr.source, dArr.target, dArr.conn_spec, to_list(dArr)[4])>>
    /\ batch_projections = pre_batch

\* C20: the flag goes from true to false only by reset_projection_collection
\* or by a Connect that added a descriptor to the batch.
C20_BuiltClearedOnlyByAddOrReset ==
    (pre_built /\ ~network_built)
    => \/ op = "reset_projection_collection"
       \/ op = "Connect" /\ Len(batch_projections) > Len(pre_batch)

\* C13: the rule entry of the conn_spec of every descriptor object is the one
\* its constructor set, whatever attribute writes, clone, to_list, apply,
\* Connect and BuildNetwork were performed.
C13_RuleNeverMutated ==
    \A i \in DOMAIN objs : heap[objs[i].conn_spec].rule = Construct(ctor).conn_spec.rule

\* C14: an assignment to an attribute that is not a reserved name, made on a
\* clone, leaves the conn_spec entries of the descriptor it was cloned from as
\* they were.
C14_CloneWritesIndependent ==
    (d_op = "setattr" /\ d_attr \notin ReservedNames /\ d_self > 1)
    => LET now == heap[objs[1].conn_spec]
           before == pre_heap[objs[1].conn_spec]
       IN  /\ d_attr \in DOMAIN now <=> d_attr \in DOMAIN before
           /\ d_attr \in DOMAIN before => now[d_attr] = before[d_attr]

IsRaw(x) == x.class # "NodeCollection"

\* C15: after construction use_connect_arrays is true only for an ArrayConnect
\* given a raw index sequence that holds a duplicate; it is false for every
\* other variant and for an ArrayConnect given two duplicate-free raw
\* sequences.
C15_ArrayFlagOnlyForRawDuplicates ==
    d_op = "construct"
    => /\ objs[1].use_connect_arrays
            => /\ ctor.cls = "ArrayConnect"
               /\ \/ IsRaw(ctor.source) /\ ~NoDuplicates(ctor.source.ids)
                  \/ IsRaw(ctor.target) /\ ~NoDuplicates(ctor.target.ids)
       /\ ctor.cls # "ArrayConnect" => ~objs[1].use_connect_arrays
       /\ ( /\ ctor.cls = "ArrayConnect"
            /\ IsRaw(ctor.source) /\ NoDuplicates(ctor.source.ids)
            /\ IsRaw(ctor.target) /\ NoDuplicates(ctor.target.ids) )
            => ~objs[1].use_connect_arrays

\* The last operation compiled a descriptor that took the standard path
CompiledStandard ==
    /\ d_op = "build"
    /\ d_result.outcome = "ok"
    /\ IsStandard(Deref(objs[d_self]))

\* C16: the instruction compiled for a standard-path descriptor has a sequence
\* of mappings as its fourth element: the mappings of a collocated synapse
\* specification in their order, the one mapping of a single specification
\* with its entries kept, and for no specification the one mapping holding
\* the default synapse model.
C16_SynSpecIsListOfMappings ==
    CompiledStandard
    => LET syn_spec == objs[d_self].syn_spec
           instr == d_result.calls[1].projection_list[1]
       IN  /\ Len(instr) = 4
           /\ \A k \in DOMAIN instr[4] : instr[4][k].class = "dict"
           /\ syn_spec.class = "CollocatedSynapses" => instr[4] = syn_spec.syn_specs
           /\ syn_spec.class \in {"dict", "SynapseModel"}
                => /\ Len(instr[4]) = 1
                   /\ \A key \in DOMAIN syn_spec.d : instr[4][1].d[key] = syn_spec.d[key]
           /\ syn_spec.class = "NoneType"
                => instr[4] = <<SynDict([synapse_model |-> "static_synapse"])>>

\* C16 witness: a descriptor with two collocated synapse specifications compiled
C16_Witness ==
    /\ CompiledStandard
    /\ ctor.syn_spec = Collocated2
    /\ Len(d_result.calls[1].projection_list[1][4]) = 2
    /\ d_result.calls[1].projection_list[1][4][2].d.weight = 3

FlagNames == {"allow_autapses", "allow_multapses"}

\* C17: a descriptor constructed with a value for allow_autapses or
\* allow_multapses has that value under that key of conn_spec if it is a
\* boolean, and has no such key otherwise.
C17_OnlyBooleanFlagsStored ==
    d_op = "construct"
    => \A name \in FlagNames :
        IF ctor[name].class = "bool"
        THEN name \in DOMAIN heap[1] /\ heap[1][name] = ctor[name].v
        ELSE name \notin DOMAIN heap[1]

\* C17 witness: constructed with the integer 1 for allow_autapses and True
\* for allow_multapses
C17_Witness ==
    /\ d_op = "construct"
    /\ ctor.allow_autapses = One
    /\ ctor.allow_multapses = True
    /\ "allow_autapses" \notin DOMAIN heap[1]
    /\ heap[1].allow_multapses = TRUE

\* C21: whenever the flag is true the batch is empty, after every Connect,
\* ConnectImmediately, BuildNetwork and reset_projection_collection, those
\* that raise included; a BuildNetwork that found the flag true and did
\* nothing found no descriptor pending.
C21_BuiltImpliesEmptyBatch ==
    /\ network_built => batch_projections = <<>>
    /\ (op = "BuildNetwork" /\ pre_built) => pre_batch = <<>> /\ calls = <<>>

\* C21 witness: a Connect that raised on a collection marked built
C21_Witness ==
    /\ op = "Connect"
    /\ outcome = "TypeError"
    /\ pre_built
    /\ network_built
    /\ batch_projections = <<>>
====
